---------------------------- MODULE Spec2Model ----------------------------
(***************************************************************************)
(* Model of the headlamp-sealed-secrets plugin core: the retry controller  *)
(* (lib/retry.ts), the validators (lib/validators.ts), the encryption      *)
(* orchestration hook and the EncryptDialog create handler.                *)
(*                                                                         *)
(* Strings are sequences of tokens (a token is a piece of text); numbers   *)
(* are rendered into a token with ToString.  Delays are exact rationals    *)
(* [num, den] until Math.floor turns them into an integer.                 *)
(***************************************************************************)
EXTENDS Integers, Sequences, FiniteSets, TLC

(***************************************************************************)
(* Bounds of the model.                                                    *)
(***************************************************************************)
\* largest maxAttempts a caller passes
MaxAttemptsBound == 3
\* Math.random() returns draw / JitterDen for draw in 0 .. JitterDen - 1
JitterDen == 4

(***************************************************************************)
(* Values of the JavaScript side.                                          *)
(***************************************************************************)
NullValue == "null"
Values == {"success", NullValue}

\* error values an operation can return in its failure variant, or throw:
\* a string, an Error instance (with its message), a plain object
NoError == [type |-> "none", message |-> <<>>]
ErrorValues ==
    { [type |-> "string", message |-> <<"e1">>],
      [type |-> "string", message |-> <<"e2">>],
      [type |-> "Error", message |-> <<"e1">>],
      [type |-> "Error", message |-> <<>>],
      [type |-> "object", message |-> <<>>] }
\* the text a caller expects to find in the aggregated error for such a value
ErrorSubstring(e) == IF e.type = "object" THEN <<"[object Object]">> ELSE e.message

\* what one invocation of the operation does: resolve with the success
\* variant, resolve with the failure variant, or throw / reject
OkOutcomes == { [kind |-> "ok", value |-> v, error |-> NoError] : v \in Values }
FailOutcomes ==
    { [kind |-> "fail", value |-> "none", error |-> e] :
        e \in { x \in ErrorValues : x.type # "object" } }
ThrowOutcomes ==
    { [kind |-> "throw", value |-> "none", error |-> e] :
        e \in { x \in ErrorValues : x.message # <<"e1">> \/ x.type = "Error" } }
Outcomes == OkOutcomes \cup FailOutcomes \cup ThrowOutcomes

\* String(x) of JavaScript
JsString(e) ==
    CASE e.type = "string" -> e.message
      [] e.type = "Error" ->
            IF e.message = <<>> THEN <<"Error">> ELSE <<"Error", ": ">> \o e.message
      [] OTHER -> <<"[object Object]">>

(***************************************************************************)
(* Result<T, E>                                                            *)
(***************************************************************************)
Ok(value) == [ok |-> TRUE, value |-> value, error |-> <<>>]
Err(error) == [ok |-> FALSE, value |-> "none", error |-> error]
NoResult == [ok |-> FALSE, value |-> "pending", error |-> <<>>]

(***************************************************************************)
(* Exact rational arithmetic for the delay computation.                    *)
(***************************************************************************)
RECURSIVE Pow(_, _)
Pow(b, n) == IF n <= 0 THEN 1 ELSE b * Pow(b, n - 1)

Rat(n, d) == [num |-> n, den |-> d]
RMul(a, b) == Rat(a.num * b.num, a.den * b.den)
RAdd(a, b) == Rat(a.num * b.den + b.num * a.den, a.den * b.den)
RSub(a, b) == Rat(a.num * b.den - b.num * a.den, a.den * b.den)
RLeq(a, b) == a.num * b.den <= b.num * a.den
RMin(a, b) == IF RLeq(a, b) THEN a ELSE b
RMax(a, b) == IF RLeq(a, b) THEN b ELSE a
RFloor(a) == a.num \div a.den
RPow(a, n) == Rat(Pow(a.num, n), Pow(a.den, n))

(***************************************************************************)
(* lib/retry.ts                                                            *)
(***************************************************************************)
DEFAULT_RETRY_OPTIONS ==
    [ maxAttempts |-> 3,
      initialDelayMs |-> 1000,
      maxDelayMs |-> 10000,
      backoffMultiplier |-> Rat(2, 1),
      useJitter |-> TRUE,
      isRetryable |-> "all" ]

\* const opts = { ...DEFAULT_RETRY_OPTIONS, ...options }
MergeOptions(options) ==
    [ k \in DOMAIN DEFAULT_RETRY_OPTIONS |->
        IF k \in DOMAIN options THEN options[k] ELSE DEFAULT_RETRY_OPTIONS[k] ]

Draws == 0 .. (JitterDen - 1)

\* the delay after min(delay, maxDelayMs), before jitter and Math.floor
CappedDelay(attempt, options) ==
    RMin(RMul(Rat(options.initialDelayMs, 1), RPow(options.backoffMultiplier, attempt)),
         Rat(options.maxDelayMs, 1))

calculateDelayShifted(attempt, options, draw) ==
    LET delay == CappedDelay(attempt + 1, options)
        jitterRange == RMul(delay, Rat(1, 4))
        jitter == RSub(RMul(RMul(Rat(draw, JitterDen), jitterRange), Rat(2, 1)), jitterRange)
    IN IF options.useJitter
       THEN RFloor(RMax(Rat(0, 1), RAdd(delay, jitter)))
       ELSE RFloor(delay)

calculateDelay(attempt, options, draw) ==
    LET delay == CappedDelay(attempt, options)
        jitterRange == RMul(delay, Rat(1, 4))
        jitter == RSub(RMul(RMul(Rat(draw, JitterDen), jitterRange), Rat(2, 1)), jitterRange)
    IN IF options.useJitter
       THEN RFloor(RMax(Rat(0, 1), RAdd(delay, jitter)))
       ELSE RFloor(delay)

\* typeof result.error === 'string' ? result.error : String(result.error)
ReturnedErrorText(e) == IF e.type = "string" THEN e.message ELSE JsString(e)
\* error instanceof Error ? error.message : String(error)
ThrownErrorText(e) == IF e.type = "Error" THEN e.message ELSE JsString(e)

AttemptEntryZeroBased(attempt, errorMessage) ==
    <<"Attempt ", ToString(attempt), ": ">> \o errorMessage

\* `Attempt ${attempt + 1}: ${errorMessage}`
AttemptEntry(attempt, errorMessage) ==
    <<"Attempt ", ToString(attempt + 1), ": ">> \o errorMessage

\* `Operation failed after ${opts.maxAttempts} attempts:\n${errors.join('\n')}`
\* as the sequence of its lines
FailureMessage(maxAttempts, errors) ==
    << <<"Operation failed after ", ToString(maxAttempts), " attempts:">> >>
        \o (IF errors = <<>> THEN << <<>> >> ELSE errors)

SucceededNonNull(result) == result.kind = "ok" /\ result.value # NullValue

\* if (result.ok)
Succeeded(result) == result.kind = "ok"

IsLastAttemptEarly(attempt, options) == attempt >= options.maxAttempts - 2

IsLastAttemptGated(attempt, options) ==
    attempt = options.maxAttempts - 1 \/ options.isRetryable = "none"

\* const isLastAttempt = attempt === opts.maxAttempts - 1
IsLastAttempt(attempt, options) == attempt = options.maxAttempts - 1

\* the local state of one retryWithBackoff call that has not been made
IdleCall ==
    [ pc |-> "idle", opts |-> DEFAULT_RETRY_OPTIONS, attempt |-> 0, errors |-> <<>>,
      result |-> NoResult, invoked |-> 0, hist |-> <<>>,
      lastDelay |-> 0, delayCount |-> 0 ]

\* the loop as do { ... } while (++attempt < opts.maxAttempts)
LoopTopDoWhile(s) ==
    IF s.attempt = 0 \/ s.attempt < s.opts.maxAttempts
    THEN [s EXCEPT !.pc = "operation", !.invoked = @ + 1]
    ELSE [s EXCEPT !.pc = "done",
                   !.result = Err(FailureMessage(s.opts.maxAttempts, s.errors))]

\* for (...; attempt < opts.maxAttempts; ...) { ... await operation() }, and
\* the return after the loop
LoopTop(s) ==
    IF s.attempt < s.opts.maxAttempts
    THEN [s EXCEPT !.pc = "operation", !.invoked = @ + 1]
    ELSE [s EXCEPT !.pc = "done",
                   !.result = Err(FailureMessage(s.opts.maxAttempts, s.errors))]

\* retryWithBackoff(operation, options) up to its first await
Called(options) == LoopTop([IdleCall EXCEPT !.opts = MergeOptions(options)])

AfterFailureAlwaysSleeps(s, draw) ==
    [s EXCEPT !.pc = "sleep",
              !.lastDelay = calculateDelay(s.attempt, s.opts, draw),
              !.delayCount = @ + 1]

\* the isLastAttempt check and the wait that follow a failed attempt
AfterFailure(s, draw) ==
    IF IsLastAttempt(s.attempt, s.opts)
    THEN [s EXCEPT !.pc = "done",
                   !.result = Err(FailureMessage(s.opts.maxAttempts, s.errors))]
    ELSE [s EXCEPT !.pc = "sleep",
                   !.lastDelay = calculateDelay(s.attempt, s.opts, draw),
                   !.delayCount = @ + 1]

\* the loop body from the point operation() settles to the next await or return
Settled(s, o, draw) ==
    LET h == [s EXCEPT !.hist = Append(@, o)]
    IN IF o.kind = "throw"
       THEN AfterFailure(
                [h EXCEPT !.errors = Append(@, AttemptEntry(s.attempt, ThrownErrorText(o.error)))],
                draw)
       ELSE IF Succeeded(o)
            THEN [h EXCEPT !.pc = "done", !.result = Ok(o.value)]
            ELSE AfterFailure(
                     IF o.kind = "fail"
                     THEN [h EXCEPT !.errors =
                              Append(@, AttemptEntry(s.attempt, ReturnedErrorText(o.error)))]
                     ELSE h,
                     draw)

WokenLost(s) == s

\* sleep(delay) resolves: attempt++ and the loop goes round
Woken(s) == LoopTop([s EXCEPT !.attempt = @ + 1])

(***************************************************************************)
(* State.                                                                  *)
(***************************************************************************)
(***************************************************************************)
(* lib/validators.ts.  A string is a sequence of one-character strings.    *)
(***************************************************************************)
Lower == {"a", "b", "c", "d", "e", "f", "g", "h", "i", "j", "k", "l", "m",
          "n", "o", "p", "q", "r", "s", "t", "u", "v", "w", "x", "y", "z"}
Upper == {"A", "B", "C", "D", "E", "F", "G", "H", "I", "J", "K", "L", "M",
          "N", "O", "P", "Q", "R", "S", "T", "U", "V", "W", "X", "Y", "Z"}
Digit == {"0", "1", "2", "3", "4", "5", "6", "7", "8", "9"}
Whitespace == {" ", "\t", "\n"}

MaxNameLength == 253
MaxValueLength == 1024 * 1024

\* String.prototype.trim
Trim(s) ==
    IF \A i \in 1 .. Len(s) : s[i] \in Whitespace THEN <<>>
    ELSE SubSeq(s,
                CHOOSE i \in 1 .. Len(s) :
                    s[i] \notin Whitespace /\ \A j \in 1 .. (i - 1) : s[j] \in Whitespace,
                CHOOSE i \in 1 .. Len(s) :
                    s[i] \notin Whitespace /\ \A j \in (i + 1) .. Len(s) : s[j] \in Whitespace)

\* /^[a-z0-9]([-a-z0-9]*[a-z0-9])?(\.[a-z0-9]([-a-z0-9]*[a-z0-9])?)*$/ as the
\* automaton it denotes: "label" expects the first character of a label,
\* "alnum" has just read an alphanumeric, "dash" has just read a '-',
\* "reject" has read a character the expression does not allow there
K8sNameStepHyphenFirst(q, ch) ==
    CASE q = "label" -> IF ch \in Lower \cup Digit THEN "alnum"
                        ELSE IF ch = "-" THEN "dash" ELSE "reject"
      [] q = "alnum" -> IF ch \in Lower \cup Digit THEN "alnum"
                        ELSE IF ch = "-" THEN "dash"
                        ELSE IF ch = "." THEN "label" ELSE "reject"
      [] q = "dash"  -> IF ch \in Lower \cup Digit THEN "alnum"
                        ELSE IF ch = "-" THEN "dash" ELSE "reject"
      [] OTHER -> "reject"

K8sNameStep(q, ch) ==
    CASE q = "label" -> IF ch \in Lower \cup Digit THEN "alnum" ELSE "reject"
      [] q = "alnum" -> IF ch \in Lower \cup Digit THEN "alnum"
                        ELSE IF ch = "-" THEN "dash"
                        ELSE IF ch = "." THEN "label" ELSE "reject"
      [] q = "dash"  -> IF ch \in Lower \cup Digit THEN "alnum"
                        ELSE IF ch = "-" THEN "dash" ELSE "reject"
      [] OTHER -> "reject"

\* the state after reading s[lo .. hi] from state q
RECURSIVE K8sNameRun(_, _, _, _)
K8sNameRun(s, lo, hi, q) ==
    IF lo > hi THEN q
    ELSE IF lo = hi THEN K8sNameStep(q, s[lo])
    ELSE LET mid == (lo + hi) \div 2
             half == K8sNameRun(s, lo, mid, q)
         IN  IF half = "reject" THEN "reject" ELSE K8sNameRun(s, mid + 1, hi, half)

MatchesK8sName(s) == K8sNameRun(s, 1, Len(s), "label") = "alnum"

\* a validator whose label characters include '/'
isValidK8sNameSlash(name) ==
    /\ name # <<>>
    /\ Len(name) <= MaxNameLength
    /\ MatchesK8sName([i \in 1 .. Len(name) |-> IF name[i] = "/" THEN "a" ELSE name[i]])

isValidK8sName(name) ==
    /\ name # <<>>
    /\ Len(name) <= MaxNameLength
    /\ MatchesK8sName(name)

\* /^[a-zA-Z0-9]([-_.a-zA-Z0-9]*[a-zA-Z0-9])?$/ as the automaton it denotes
K8sKeyStep(q, ch) ==
    CASE q = "first" -> IF ch \in Lower \cup Upper \cup Digit THEN "alnum" ELSE "reject"
      [] q \in {"alnum", "mark"} ->
            IF ch \in Lower \cup Upper \cup Digit THEN "alnum"
            ELSE IF ch \in {"-", "_", "."} THEN "mark" ELSE "reject"
      [] OTHER -> "reject"

RECURSIVE K8sKeyRun(_, _, _, _)
K8sKeyRun(s, lo, hi, q) ==
    IF lo > hi THEN q
    ELSE IF lo = hi THEN K8sKeyStep(q, s[lo])
    ELSE LET mid == (lo + hi) \div 2
             half == K8sKeyRun(s, lo, mid, q)
         IN  IF half = "reject" THEN "reject" ELSE K8sKeyRun(s, mid + 1, hi, half)

MatchesK8sKey(s) == K8sKeyRun(s, 1, Len(s), "first") = "alnum"

isValidK8sKeyUnanchored(key) ==
    /\ key # <<>>
    /\ Len(key) <= MaxNameLength
    /\ \A i \in 1 .. Len(key) : key[i] \in Lower \cup Upper \cup Digit \cup {"-", "_", "."}

isValidK8sKey(key) ==
    /\ key # <<>>
    /\ Len(key) <= MaxNameLength
    /\ MatchesK8sKey(key)

\* A certificate text is a sequence whose elements are single characters
\* or one of the two markers.
BeginMarker == "-----BEGIN CERTIFICATE-----"
EndMarker == "-----END CERTIFICATE-----"

\* /^-----BEGIN CERTIFICATE-----\s+[\s\S]+\s+-----END CERTIFICATE-----\s*$/
\* on the trimmed text
MatchesPEM(t) ==
    /\ Len(t) >= 5
    /\ t[1] = BeginMarker
    /\ t[2] \in Whitespace
    /\ t[Len(t) - 1] \in Whitespace
    /\ t[Len(t)] = EndMarker

isValidPEM(value) == value # <<>> /\ MatchesPEM(Trim(value))

isValidNamespace(namespace) == isValidK8sName(namespace)

Valid == [valid |-> TRUE, error |-> <<>>]
Invalid(error) == [valid |-> FALSE, error |-> error]

\* validateSecretName with the format check on the trimmed name
validateSecretNameTrimmed(name) ==
    IF name = <<>> \/ Len(Trim(name)) = 0
    THEN Invalid(<<"Secret name is required">>)
    ELSE IF Len(name) > MaxNameLength
    THEN Invalid(<<"Secret name must be 253 characters or less">>)
    ELSE IF ~isValidK8sName(Trim(name))
    THEN Invalid(<<"Secret name must be lowercase alphanumeric, may contain hyphens and dots, and must start/end with alphanumeric">>)
    ELSE Valid

validateSecretName(name) ==
    IF name = <<>> \/ Len(Trim(name)) = 0
    THEN Invalid(<<"Secret name is required">>)
    ELSE IF Len(name) > MaxNameLength
    THEN Invalid(<<"Secret name must be 253 characters or less">>)
    ELSE IF ~isValidK8sName(name)
    THEN Invalid(<<"Secret name must be lowercase alphanumeric, may contain hyphens and dots, and must start/end with alphanumeric">>)
    ELSE Valid

validateSecretKey(key) ==
    IF key = <<>> \/ Len(Trim(key)) = 0
    THEN Invalid(<<"Key name is required">>)
    ELSE IF Len(key) > MaxNameLength
    THEN Invalid(<<"Key name must be 253 characters or less">>)
    ELSE IF ~isValidK8sKey(key)
    THEN Invalid(<<"Key name must be alphanumeric and may contain hyphens, underscores, and dots">>)
    ELSE Valid

validateSecretValue(value) ==
    IF value = <<>> \/ Len(Trim(value)) = 0
    THEN Invalid(<<"Secret value is required">>)
    ELSE IF Len(value) > MaxValueLength
    THEN Invalid(<<"Secret value must be less than 1MB">>)
    ELSE Valid

validatePEMCertificate(pem) ==
    IF pem = <<>> \/ Len(Trim(pem)) = 0
    THEN Invalid(<<"Certificate is required">>)
    ELSE IF ~isValidPEM(pem)
    THEN Invalid(<<"Invalid PEM format. Must contain BEGIN CERTIFICATE and END CERTIFICATE markers">>)
    ELSE Valid

(***************************************************************************)
(* lib/crypto.ts, lib/controller.ts and hooks/useSealedSecretEncryption.ts *)
(* as the specification and the phase notes describe them.                 *)
(***************************************************************************)
Scopes == {"strict", "namespace-wide", "cluster-wide"}

\* the label mixed into the asymmetric encryption step
ScopeLabel(scope, namespace, name) ==
    CASE scope = "strict" -> namespace \o <<"/">> \o name
      [] scope = "namespace-wide" -> namespace
      [] OTHER -> <<>>

\* encryptValue: the ciphertext is an opaque string determined by the
\* plaintext and the label; it is never the plaintext itself
encryptValue(plaintext, namespace, name, scope) ==
    <<"AgB">> \o ScopeLabel(scope, namespace, name) \o <<":">> \o plaintext

\* encryptKeyValues: the key -> ciphertext map of a batch (a later pair
\* with the same key replaces an earlier one)
encryptKeyValues(pairs, namespace, name, scope) ==
    [ k \in { pairs[i].key : i \in 1 .. Len(pairs) } |->
        LET last == CHOOSE i \in 1 .. Len(pairs) :
                       /\ pairs[i].key = k
                       /\ \A j \in 1 .. Len(pairs) : pairs[j].key = k => j <= i
        IN  encryptValue(pairs[last].value, namespace, name, scope) ]

\* step 6: the SealedSecret document
SealedSecretData(request, encryptedData) ==
    [ apiVersion |-> "bitnami.com/v1alpha1",
      kind       |-> "SealedSecret",
      metadata   |-> [name |-> request.name, namespace |-> request.namespace,
                      scope |-> request.scope],
      spec       |-> [encryptedData |-> encryptedData] ]

\* step 1: name, then every key and value in order; the first failure wins
PairError(kv) ==
    IF ~validateSecretKey(kv.key).valid
    THEN <<"Invalid key \"">> \o kv.key \o <<"\": ">> \o validateSecretKey(kv.key).error
    ELSE IF ~validateSecretValue(kv.value).valid
    THEN <<"Invalid value for key \"">> \o kv.key \o <<"\": ">>
            \o validateSecretValue(kv.value).error
    ELSE <<>>

ValidateRequest(request) ==
    LET nameValidation == validateSecretName(request.name)
        kvs == request.keyValues
        bad == { i \in 1 .. Len(kvs) : PairError(kvs[i]) # <<>> }
    IN  IF ~nameValidation.valid THEN nameValidation
        ELSE IF bad = {} THEN Valid
        ELSE Invalid(PairError(kvs[CHOOSE i \in bad : \A j \in bad : i <= j]))

\* fetchPublicCertificate: retryWithBackoff around fetchPublicCertificateOnce
FETCH_RETRY_OPTIONS_LONGER == [maxAttempts |-> 4, initialDelayMs |-> 1000, maxDelayMs |-> 10000]

FETCH_RETRY_OPTIONS == [maxAttempts |-> 3, initialDelayMs |-> 1000, maxDelayMs |-> 10000]

\* what one request to the controller endpoint comes back with
FetchOutcomes ==
    { [kind |-> "ok", value |-> "-----BEGIN CERTIFICATE-----", error |-> NoError],
      [kind |-> "fail", value |-> "none",
       error |-> [type |-> "string", message |-> <<"Failed to fetch certificate">>]] }

\* step 3: what parseCertificateInfo finds
CertificateInfos == {"valid", "expiring", "unparsed"}

(***************************************************************************)
(* components/EncryptDialog.tsx                                            *)
(***************************************************************************)
EmptyRow == [key |-> <<>>, value |-> <<>>, showValue |-> FALSE]
InitialName == <<>>
InitialNamespace == <<"d", "e", "f", "a", "u", "l", "t">>
InitialScope == "strict"
InitialKeyValues == <<EmptyRow>>

\* const validKeyValues = keyValues.filter(kv => kv.key || kv.value).map(...)
ValidKeyValues(rows) ==
    LET kept == SelectSeq(rows, LAMBDA kv : kv.key # <<>> \/ kv.value # <<>>)
    IN  [ i \in 1 .. Len(kept) |-> [key |-> kept[i].key, value |-> kept[i].value] ]

NoRequest == [name |-> <<>>, namespace |-> <<>>, scope |-> InitialScope, keyValues |-> <<>>]

\* the body handed to SealedSecret.apiEndpoint.post
PostBodyRenamed(result) ==
    [result.value.sealedSecretData EXCEPT !.metadata.name = <<>>]

PostBody(result) == result.value.sealedSecretData

\* the locals of one handleCreate invocation, with what it has done so far
IdleCreate ==
    [ pc |-> "idle", request |-> NoRequest, result |-> NoResult,
      fetched |-> 0, certInfoParsed |-> 0, keyParsed |-> 0, encrypted |-> 0,
      posted |-> <<>>, post |-> "none", snackbars |-> <<>>, closed |-> 0 ]

Snackbar(variant, message) == [variant |-> variant, message |-> message]

Calls == {1, 2}

VARIABLES
    retry,      \* retry[c]: the local state of retryWithBackoff call c
    name,       \* EncryptDialog state: secret name
    namespace,  \* EncryptDialog state: selected namespace
    scope,      \* EncryptDialog state: selected scope
    keyValues,  \* EncryptDialog state: the key/value rows
    encrypting, \* useSealedSecretEncryption state: the busy flag
    create,     \* create[c]: handleCreate invocation c (its fetch is retry[c])
    call        \* an application of a pure function: its arguments and result

formVars == <<name, namespace, scope, keyValues>>
dialogVars == <<name, namespace, scope, keyValues, encrypting, create>>
vars == <<retry, name, namespace, scope, keyValues, encrypting, create, call>>

NoCall == [fn |-> "none", args |-> <<>>, result |-> <<>>, done |-> FALSE]

(***************************************************************************)
(* Spec: one retryWithBackoff call around a stub operation.                *)
(***************************************************************************)
\* the options callers pass
Multipliers == {Rat(2, 1), Rat(3, 2)}
OptionChoices ==
    { [maxAttempts |-> n, initialDelayMs |-> i, maxDelayMs |-> m,
       backoffMultiplier |-> b, useJitter |-> j] :
        n \in 0 .. MaxAttemptsBound, i \in {1000, 1001}, m \in {1500, 10000},
        b \in Multipliers, j \in BOOLEAN }
    \cup { [maxAttempts |-> n] : n \in -1 .. MaxAttemptsBound }

Init ==
    /\ retry = [c \in Calls |-> IdleCall]
    /\ name = InitialName
    /\ namespace = InitialNamespace
    /\ scope = InitialScope
    /\ keyValues = InitialKeyValues
    /\ encrypting = FALSE
    /\ create = [c \in Calls |-> IdleCreate]
    /\ call = NoCall

RetryStart(c) ==
    /\ retry[c].pc = "idle"
    /\ \E options \in OptionChoices : retry' = [retry EXCEPT ![c] = Called(options)]
    /\ UNCHANGED <<dialogVars, call>>

OperationSettles(c) ==
    /\ retry[c].pc = "operation"
    /\ \E o \in Outcomes, draw \in Draws :
          retry' = [retry EXCEPT ![c] = Settled(retry[c], o, draw)]
    /\ UNCHANGED <<dialogVars, call>>

TimerFires(c) ==
    /\ retry[c].pc = "sleep"
    /\ retry' = [retry EXCEPT ![c] = Woken(retry[c])]
    /\ UNCHANGED <<dialogVars, call>>

Next == RetryStart(1) \/ OperationSettles(1) \/ TimerFires(1)

Spec == Init /\ [][Next]_vars

\* every invocation of the operation completes and every setTimeout of
\* sleep fires
SpecFair == Spec /\ WF_vars(OperationSettles(1)) /\ WF_vars(TimerFires(1))

(***************************************************************************)
(* SpecPair: two retryWithBackoff calls fed, attempt by attempt, the same  *)
(* operation outcome and the same Math.random() draw.  Call 1 passes no    *)
(* isRetryable, call 2 passes one.                                         *)
(***************************************************************************)
Predicates == {"none", "network"}

WithPredicate(options, p) ==
    [ k \in DOMAIN options \cup {"isRetryable"} |->
        IF k = "isRetryable" THEN p ELSE options[k] ]

PairStart ==
    /\ \A c \in Calls : retry[c].pc = "idle"
    /\ \E options \in OptionChoices, p \in Predicates :
          retry' = [c \in Calls |->
                      IF c = 1 THEN Called(options) ELSE Called(WithPredicate(options, p))]
    /\ UNCHANGED <<dialogVars, call>>

PairSettles ==
    /\ \E c \in Calls : retry[c].pc = "operation"
    /\ \E o \in Outcomes, draw \in Draws :
          retry' = [c \in Calls |->
                      IF retry[c].pc = "operation"
                      THEN Settled(retry[c], o, draw) ELSE retry[c]]
    /\ UNCHANGED <<dialogVars, call>>

PairTimers ==
    /\ \E c \in Calls : retry[c].pc = "sleep"
    /\ retry' = [c \in Calls |->
                    IF retry[c].pc = "sleep" THEN Woken(retry[c]) ELSE retry[c]]
    /\ UNCHANGED <<dialogVars, call>>

NextPair == PairStart \/ PairSettles \/ PairTimers

SpecPair == Init /\ [][NextPair]_vars

(***************************************************************************)
(* SpecConcurrent: two retryWithBackoff calls whose attempts and delays    *)
(* interleave freely.  The variable call holds the objects both calls can  *)
(* reach: DEFAULT_RETRY_OPTIONS and the options object each was given      *)
(* (passed keeps what the caller wrote into it).                           *)
(***************************************************************************)
MaxConcurrentAttempts == 2
ConcurrentOptions ==
    { [maxAttempts |-> n, useJitter |-> FALSE] : n \in 1 .. MaxConcurrentAttempts }
    \cup { [maxAttempts |-> n, useJitter |-> FALSE, initialDelayMs |-> 1001] :
             n \in 1 .. MaxConcurrentAttempts }
ConcurrentOutcomes ==
    { o \in Outcomes :
        /\ o.value # NullValue
        /\ o.error \in {NoError, [type |-> "string", message |-> <<"e1">>],
                         [type |-> "Error", message |-> <<"e1">>]} }

InitConcurrent ==
    /\ retry = [c \in Calls |-> IdleCall]
    /\ name = InitialName
    /\ namespace = InitialNamespace
    /\ scope = InitialScope
    /\ keyValues = InitialKeyValues
    /\ encrypting = FALSE
    /\ create = [c \in Calls |-> IdleCreate]
    /\ \E o1 \in ConcurrentOptions, o2 \in ConcurrentOptions :
          call = [defaults |-> DEFAULT_RETRY_OPTIONS,
                  options |-> <<o1, o2>>, passed |-> <<o1, o2>>]

\* { ...defaults, ...options }
Spread(defaults, options) ==
    [ k \in DOMAIN defaults |-> IF k \in DOMAIN options THEN options[k] ELSE defaults[k] ]

\* Object.assign(DEFAULT_RETRY_OPTIONS, options) in place of the spread
AssignedOptions(heap, c) ==
    [heap EXCEPT !.defaults = Spread(heap.defaults, heap.options[c])]

\* the objects after const opts = { ...DEFAULT_RETRY_OPTIONS, ...options }:
\* the spread writes to a new object only
SpreadOptions(heap, c) == heap

ConcurrentStart(c) ==
    /\ retry[c].pc = "idle"
    /\ retry' = [retry EXCEPT ![c] =
                    LoopTop([IdleCall EXCEPT
                               !.opts = Spread(call.defaults, call.options[c])])]
    /\ call' = SpreadOptions(call, c)
    /\ UNCHANGED dialogVars

ConcurrentSettles(c) ==
    /\ retry[c].pc = "operation"
    /\ \E o \in ConcurrentOutcomes, draw \in Draws :
          retry' = [retry EXCEPT ![c] = Settled(retry[c], o, draw)]
    /\ UNCHANGED <<dialogVars, call>>

NextConcurrent ==
    \E c \in Calls : ConcurrentStart(c) \/ ConcurrentSettles(c) \/ TimerFires(c)

SpecConcurrent == InitConcurrent /\ [][NextConcurrent]_vars

(***************************************************************************)
(* SpecEncrypt: the EncryptDialog form, handleCreate and the encrypt call  *)
(* it awaits.  The user edits the form while no handleCreate is running,   *)
(* and a returned handleCreate is released before anything else happens.   *)
(***************************************************************************)
MaxRows == 2

NameChoices ==
    { <<>>, <<"a", "b">>, <<"I", "n", "v", "a", "l", "i", "d", "_", "N", "a", "m", "e">>,
      [i \in 1 .. 300 |-> "a"] }
\* metadata.name of the namespaces the cluster lists
NamespaceChoices == { InitialNamespace, <<"B", "a", "d", "_", "N", "S">> }
KeyChoices == { <<>>, <<"k">> }
ValueChoices == { <<>>, <<"v">> }

FormQuiet == \A c \in Calls : create[c].pc = "idle"
NoneReturned == \A c \in Calls : create[c].pc # "returned"

SetName ==
    /\ FormQuiet
    /\ \E n \in NameChoices : name' = n
    /\ UNCHANGED <<call, retry, namespace, scope, keyValues, encrypting, create>>

SetNamespace ==
    /\ FormQuiet
    /\ \E ns \in NamespaceChoices : namespace' = ns
    /\ UNCHANGED <<call, retry, name, scope, keyValues, encrypting, create>>

SetScope ==
    /\ FormQuiet
    /\ \E sc \in Scopes : scope' = sc
    /\ UNCHANGED <<call, retry, name, namespace, keyValues, encrypting, create>>

handleAddKeyValue ==
    /\ FormQuiet
    /\ Len(keyValues) < MaxRows
    /\ keyValues' = Append(keyValues, EmptyRow)
    /\ UNCHANGED <<call, retry, name, namespace, scope, encrypting, create>>

\* the remove button of every row with a handler that is always enabled
RemoveNeverDisabled(rows) == FALSE

\* disabled={keyValues.length === 1} on the remove button of every row
RemoveDisabled(rows) == Len(rows) = 1

handleRemoveKeyValue ==
    /\ FormQuiet
    /\ ~RemoveDisabled(keyValues)
    /\ \E index \in 1 .. Len(keyValues) :
          keyValues' = [ i \in 1 .. Len(keyValues) - 1 |->
                           IF i < index THEN keyValues[i] ELSE keyValues[i + 1] ]
    /\ UNCHANGED <<call, retry, name, namespace, scope, encrypting, create>>

handleKeyChange ==
    /\ FormQuiet
    /\ \E index \in 1 .. Len(keyValues), key \in KeyChoices :
          keyValues' = [keyValues EXCEPT ![index].key = key]
    /\ UNCHANGED <<call, retry, name, namespace, scope, encrypting, create>>

handleValueChange ==
    /\ FormQuiet
    /\ \E index \in 1 .. Len(keyValues), value \in ValueChoices :
          keyValues' = [keyValues EXCEPT ![index].value = value]
    /\ UNCHANGED <<call, retry, name, namespace, scope, encrypting, create>>

\* click on Create: handleCreate up to its first suspension, which is the
\* certificate fetch inside encrypt, or to its return when validation fails
HandleCreate(c) ==
    /\ NoneReturned
    /\ ~encrypting
    /\ create[c].pc = "idle"
    /\ \A d \in Calls : d < c => create[d].pc # "idle"
    /\ LET request == [name |-> name, namespace |-> namespace, scope |-> scope,
                       keyValues |-> ValidKeyValues(keyValues)]
           validation == ValidateRequest(request)
       IN  IF validation.valid
           THEN /\ create' = [create EXCEPT ![c] =
                       [IdleCreate EXCEPT !.pc = "encrypt", !.request = request]]
                /\ retry' = [retry EXCEPT ![c] = Called(FETCH_RETRY_OPTIONS)]
                /\ encrypting' = TRUE
           ELSE /\ create' = [create EXCEPT ![c] =
                       [IdleCreate EXCEPT
                          !.pc = "returned", !.request = request,
                          !.result = Err(<<validation.error>>),
                          !.snackbars = <<Snackbar("error", validation.error)>>]]
                /\ UNCHANGED <<retry, encrypting>>
    /\ UNCHANGED <<formVars, call>>

\* one request to the controller endpoint comes back
FetchSettles(c) ==
    /\ NoneReturned
    /\ create[c].pc = "encrypt"
    /\ retry[c].pc = "operation"
    /\ \E o \in FetchOutcomes, draw \in Draws :
          retry' = [retry EXCEPT ![c] = Settled(retry[c], o, draw)]
    /\ UNCHANGED <<dialogVars, call>>

\* the delay between two requests is over
FetchTimerFires(c) ==
    /\ NoneReturned
    /\ create[c].pc = "encrypt"
    /\ retry[c].pc = "sleep"
    /\ retry' = [retry EXCEPT ![c] = Woken(retry[c])]
    /\ UNCHANGED <<dialogVars, call>>

\* encrypt after fetchPublicCertificate has returned (steps 3 to 7), and
\* handleCreate after encrypt has returned, up to the POST it awaits
EncryptResumes(c) ==
    /\ NoneReturned
    /\ create[c].pc = "encrypt"
    /\ retry[c].pc = "done"
    /\ encrypting' = FALSE
    /\ retry' = [retry EXCEPT ![c] = IdleCall]
    /\ IF ~retry[c].result.ok
       THEN create' = [create EXCEPT ![c] =
               [@ EXCEPT !.pc = "returned",
                         !.fetched = retry[c].invoked,
                         !.result = Err(retry[c].result.error),
                         !.snackbars = Append(@, Snackbar("error", <<"Failed to fetch certificate">>))]]
       ELSE \E info \in CertificateInfos, keyOk \in BOOLEAN, cryptoOk \in BOOLEAN :
               LET request == create[c].request
                   advised == IF info = "expiring"
                              THEN <<Snackbar("warning", <<"Certificate expires soon">>)>>
                              ELSE <<>>
                   parsed == [create[c] EXCEPT !.fetched = retry[c].invoked,
                                               !.certInfoParsed = @ + 1,
                                               !.keyParsed = @ + 1,
                                               !.snackbars = @ \o advised]
                   result == Ok([sealedSecretData |->
                                    SealedSecretData(request,
                                       encryptKeyValues(request.keyValues, request.namespace,
                                                        request.name, request.scope)),
                                 certificateInfo |-> info])
               IN  IF ~keyOk
                   THEN create' = [create EXCEPT ![c] =
                           [parsed EXCEPT
                              !.pc = "returned",
                              !.result = Err(<<<<"Failed to parse public key">>>>),
                              !.snackbars = Append(@, Snackbar("error", <<"Failed to parse public key">>))]]
                   ELSE IF ~cryptoOk
                   THEN create' = [create EXCEPT ![c] =
                           [parsed EXCEPT
                              !.pc = "returned",
                              !.encrypted = @ + 1,
                              !.result = Err(<<<<"Encryption failed">>>>),
                              !.snackbars = Append(@, Snackbar("error", <<"Encryption failed">>))]]
                   ELSE create' = [create EXCEPT ![c] =
                           [parsed EXCEPT
                              !.pc = "post",
                              !.encrypted = @ + 1,
                              !.result = result,
                              !.posted = Append(@, PostBody(result))]]
    /\ UNCHANGED <<name, namespace, scope, keyValues, call>>

\* handleCreate from the settled POST to its end with onClose in the catch
\* block as well
AfterPostAlwaysCloses(d, fulfilled) ==
    IF fulfilled
    THEN [d EXCEPT !.pc = "returned", !.post = "fulfilled",
                   !.snackbars = Append(@, Snackbar("success",
                                    <<"SealedSecret created successfully">>)),
                   !.closed = @ + 1]
    ELSE [d EXCEPT !.pc = "returned", !.post = "rejected",
                   !.snackbars = Append(@, Snackbar("error",
                                    <<"Failed to create SealedSecret: ">>)),
                   !.closed = @ + 1]

\* the locals of handleCreate call d after its try/catch around the POST:
\* the success notification and onClose(), or the error notification
AfterPost(d, fulfilled) ==
    IF fulfilled
    THEN [d EXCEPT !.pc = "returned", !.post = "fulfilled",
                   !.snackbars = Append(@, Snackbar("success",
                                    <<"SealedSecret created successfully">>)),
                   !.closed = @ + 1]
    ELSE [d EXCEPT !.pc = "returned", !.post = "rejected",
                   !.snackbars = Append(@, Snackbar("error",
                                    <<"Failed to create SealedSecret: ">>))]

\* the POST settles: handleCreate runs to its end
PostSettles(c) ==
    /\ NoneReturned
    /\ create[c].pc = "post"
    /\ \E fulfilled \in BOOLEAN :
          /\ create' = [create EXCEPT ![c] = AfterPost(@, fulfilled)]
          /\ IF fulfilled
             THEN /\ name' = InitialName
                  /\ namespace' = InitialNamespace
                  /\ scope' = InitialScope
                  /\ keyValues' = InitialKeyValues
             ELSE UNCHANGED formVars
    /\ UNCHANGED <<call, retry, encrypting>>

\* the promise of a returned handleCreate is dropped
Release(c) ==
    /\ create[c].pc = "returned"
    /\ create' = [create EXCEPT ![c] = IdleCreate]
    /\ UNCHANGED <<call, retry, name, namespace, scope, keyValues, encrypting>>

NextEncrypt ==
    \/ SetName \/ SetNamespace \/ SetScope
    \/ handleAddKeyValue \/ handleRemoveKeyValue
    \/ handleKeyChange \/ handleValueChange
    \/ \E c \in Calls :
          \/ HandleCreate(c) \/ FetchSettles(c) \/ FetchTimerFires(c)
          \/ EncryptResumes(c) \/ PostSettles(c) \/ Release(c)

SpecEncrypt == Init /\ [][NextEncrypt]_vars

(***************************************************************************)
(* SpecRows: the key/value rows of the dialog under every control that    *)
(* touches them, the visibility toggle included, and under the creates    *)
(* that reset them.  Namespace and scope keep their initial values.       *)
(***************************************************************************)
toggleShowValue ==
    /\ FormQuiet
    /\ \E index \in 1 .. Len(keyValues) :
          keyValues' = [keyValues EXCEPT ![index].showValue = ~@]
    /\ UNCHANGED <<call, retry, name, namespace, scope, encrypting, create>>

NextRows ==
    \/ SetName
    \/ handleAddKeyValue \/ handleRemoveKeyValue
    \/ handleKeyChange \/ handleValueChange \/ toggleShowValue
    \/ \E c \in Calls :
          \/ HandleCreate(c) \/ FetchSettles(c) \/ FetchTimerFires(c)
          \/ EncryptResumes(c) \/ PostSettles(c) \/ Release(c)

SpecRows == Init /\ [][NextRows]_vars

(***************************************************************************)
(* SpecLabel: the scope label of every scope for valid namespaces and      *)
(* names over a small alphabet.                                            *)
(***************************************************************************)
MaxLabelLen == 3
LabelAlphabet == {"a", "-", ".", "/"}

StringsUpTo(n) == UNION { [1 .. k -> LabelAlphabet] : k \in 0 .. n }
ValidNames == { s \in StringsUpTo(MaxLabelLen) : isValidK8sName(s) }

InitLabel ==
    /\ retry = [c \in Calls |-> IdleCall]
    /\ name = InitialName
    /\ namespace = InitialNamespace
    /\ scope = InitialScope
    /\ keyValues = InitialKeyValues
    /\ encrypting = FALSE
    /\ create = [c \in Calls |-> IdleCreate]
    /\ \E sc \in Scopes, ns \in { s \in ValidNames : isValidNamespace(s) }, n \in ValidNames :
          call = [fn |-> "ScopeLabel", args |-> <<sc, ns, n>>, result |-> <<>>, done |-> FALSE]

DeriveLabel ==
    /\ call.fn = "ScopeLabel"
    /\ ~call.done
    /\ call' = [call EXCEPT !.result = ScopeLabel(call.args[1], call.args[2], call.args[3]),
                            !.done = TRUE]
    /\ UNCHANGED <<retry, dialogVars>>

NextLabel == DeriveLabel

SpecLabel == InitLabel /\ [][NextLabel]_vars

(***************************************************************************)
(* SpecTry: tryCatch and tryCatchAsync (types.ts) applied to a callable    *)
(* that returns, throws, or returns a promise that resolves or rejects.    *)
(***************************************************************************)
MaxMessageLen == 2
MessageTokens == {"e1", "e2"}
Messages == UNION { [1 .. k -> MessageTokens] : k \in 0 .. MaxMessageLen }

\* what a callable can throw: a string, an Error, an object whose toString
\* gives a message, a plain object, or an object without any toString
\* (Object.create(null)), for which String(x) itself throws a TypeError
ThrownValues ==
    { [type |-> t, message |-> m] : t \in {"string", "Error", "custom"}, m \in Messages }
    \cup { [type |-> "object", message |-> <<>>], [type |-> "bare", message |-> <<>>] }

CanString(x) == x.type # "bare"
StringOf(x) == IF x.type = "custom" THEN x.message ELSE JsString(x)
TypeError == [type |-> "Error", message |-> <<"Cannot convert object to primitive value">>]

\* the behaviours of fn
SyncBehaviours ==
    { [kind |-> "return", value |-> v, error |-> NoError] : v \in Values }
    \cup { [kind |-> "throw", value |-> "none", error |-> x] : x \in ThrownValues }
AsyncBehaviours ==
    { [kind |-> "resolve", value |-> v, error |-> NoError] : v \in Values }
    \cup { [kind |-> k, value |-> "none", error |-> x] :
              k \in {"throw", "reject"}, x \in ThrownValues }

\* error instanceof Error ? error : new Error(String(error))
ToErrorUnwrapped(error) == error

ToError(error) ==
    IF error.type = "Error" THEN error
    ELSE [type |-> "Error", message |-> StringOf(error)]

\* the catch block: returns Err(...), or throws when String(error) throws
Caught(s, error) ==
    IF error.type = "Error" \/ CanString(error)
    THEN [s EXCEPT !.pc = "returned", !.result = Err(ToError(error)), !.done = TRUE]
    ELSE [s EXCEPT !.pc = "threw", !.thrown = TypeError, !.done = TRUE]

NewTry(f, b) ==
    [ fn |-> f, args |-> <<b>>, pc |-> "start", invoked |-> 0,
      result |-> NoResult, thrown |-> NoError, done |-> FALSE ]

InitTry ==
    /\ retry = [c \in Calls |-> IdleCall]
    /\ name = InitialName
    /\ namespace = InitialNamespace
    /\ scope = InitialScope
    /\ keyValues = InitialKeyValues
    /\ encrypting = FALSE
    /\ create = [c \in Calls |-> IdleCreate]
    /\ \/ \E b \in SyncBehaviours : call = NewTry("tryCatch", b)
       \/ \E b \in AsyncBehaviours : call = NewTry("tryCatchAsync", b)

\* tryCatch(fn), from call to completion
tryCatch ==
    /\ call.fn = "tryCatch"
    /\ call.pc = "start"
    /\ LET b == call.args[1]
           s == [call EXCEPT !.invoked = @ + 1]
       IN  call' = IF b.kind = "return"
                   THEN [s EXCEPT !.pc = "returned", !.result = Ok(b.value), !.done = TRUE]
                   ELSE Caught(s, b.error)
    /\ UNCHANGED <<retry, dialogVars>>

\* tryCatchAsync(fn) up to its await, or to its end when fn() itself throws
tryCatchAsync ==
    /\ call.fn = "tryCatchAsync"
    /\ call.pc = "start"
    /\ LET b == call.args[1]
           s == [call EXCEPT !.invoked = @ + 1]
       IN  call' = IF b.kind = "throw" THEN Caught(s, b.error)
                   ELSE [s EXCEPT !.pc = "await"]
    /\ UNCHANGED <<retry, dialogVars>>

\* the promise fn returned settles
PromiseSettles ==
    /\ call.fn = "tryCatchAsync"
    /\ call.pc = "await"
    /\ LET b == call.args[1]
       IN  call' = IF b.kind = "resolve"
                   THEN [call EXCEPT !.pc = "returned", !.result = Ok(b.value), !.done = TRUE]
                   ELSE Caught(call, b.error)
    /\ UNCHANGED <<retry, dialogVars>>

NextTry == tryCatch \/ tryCatchAsync \/ PromiseSettles

SpecTry == InitTry /\ [][NextTry]_vars

(***************************************************************************)
(* SpecValidate: the validators of lib/validators.ts applied to strings.   *)
(***************************************************************************)
MaxStringLen == 3
NameAlphabet == {"a", "0", "-", ".", "A", "_", " "}

Repeat(ch, n) == [i \in 1 .. n |-> ch]
\* 'a.a.a. ... .a' of length n (n odd)
Dotted(n) == [i \in 1 .. n |-> IF i % 2 = 1 THEN "a" ELSE "."]

NameInputs ==
    UNION { [1 .. k -> NameAlphabet] : k \in 0 .. MaxStringLen }
    \cup { Repeat("a", MaxNameLength - 1), Repeat("a", MaxNameLength),
           Repeat("a", MaxNameLength + 1), Dotted(MaxNameLength),
           Dotted(MaxNameLength + 2), Repeat(" ", MaxNameLength + 1) }

\* "U+00E9" is one UTF-16 code unit that takes two bytes in UTF-8
ValueAlphabet == {"a", " ", "U+00E9"}
\* unit.repeat(times)
RECURSIVE RepeatText(_, _)
RepeatText(unit, times) ==
    IF times = 0 THEN <<>>
    ELSE LET half == RepeatText(unit, times \div 2)
         IN  IF times % 2 = 0 THEN half \o half ELSE half \o half \o unit

\* a value is written as unit.repeat(times)
ValueInputs ==
    { [unit |-> u, times |-> 1] :
        u \in UNION { [1 .. k -> ValueAlphabet] : k \in 0 .. MaxStringLen } }
    \cup { [unit |-> u, times |-> n] :
             u \in {<<"a">>, <<"U+00E9">>, <<" ">>},
             n \in {MaxValueLength \div 2, MaxValueLength \div 2 + 1,
                    MaxValueLength, MaxValueLength + 1} }

MaxPemLen == 5
PemAlphabet == {BeginMarker, EndMarker, "\n", "A", "!"}
Envelope == <<BeginMarker, "\n", "A", "\n", EndMarker>>
PemInputs ==
    UNION { [1 .. k -> PemAlphabet] : k \in 0 .. MaxPemLen }
    \cup { Envelope \o <<"\n">> \o Envelope, <<" ">> \o Envelope \o <<"\n">> }

NewCall(f, input) == [fn |-> f, args |-> <<input>>, result |-> FALSE, done |-> FALSE]

InitValidate ==
    /\ retry = [c \in Calls |-> IdleCall]
    /\ name = InitialName
    /\ namespace = InitialNamespace
    /\ scope = InitialScope
    /\ keyValues = InitialKeyValues
    /\ encrypting = FALSE
    /\ create = [c \in Calls |-> IdleCreate]
    /\ \/ \E f \in {"isValidK8sName", "isValidNamespace", "isValidK8sKey",
                    "validateSecretName", "validateSecretKey"}, input \in NameInputs :
             call = NewCall(f, input)
       \/ \E input \in ValueInputs : call = NewCall("validateSecretValue", input)
       \/ \E f \in {"isValidPEM", "validatePEMCertificate"}, input \in PemInputs :
             call = NewCall(f, input)

Applies(f) == call.fn = f /\ ~call.done
Returns(value) == call' = [call EXCEPT !.result = value, !.done = TRUE]

CheckK8sName ==
    /\ Applies("isValidK8sName")
    /\ Returns(isValidK8sName(call.args[1]))
    /\ UNCHANGED <<retry, dialogVars>>

CheckNamespace ==
    /\ Applies("isValidNamespace")
    /\ Returns(isValidNamespace(call.args[1]))
    /\ UNCHANGED <<retry, dialogVars>>

CheckK8sKey ==
    /\ Applies("isValidK8sKey")
    /\ Returns(isValidK8sKey(call.args[1]))
    /\ UNCHANGED <<retry, dialogVars>>

CheckSecretName ==
    /\ Applies("validateSecretName")
    /\ Returns(validateSecretName(call.args[1]))
    /\ UNCHANGED <<retry, dialogVars>>

CheckSecretKey ==
    /\ Applies("validateSecretKey")
    /\ Returns(validateSecretKey(call.args[1]))
    /\ UNCHANGED <<retry, dialogVars>>

CheckSecretValue ==
    /\ Applies("validateSecretValue")
    /\ Returns(validateSecretValue(RepeatText(call.args[1].unit, call.args[1].times)))
    /\ UNCHANGED <<retry, dialogVars>>

CheckPEM ==
    /\ Applies("isValidPEM")
    /\ Returns(isValidPEM(call.args[1]))
    /\ UNCHANGED <<retry, dialogVars>>

CheckPEMCertificate ==
    /\ Applies("validatePEMCertificate")
    /\ Returns(validatePEMCertificate(call.args[1]))
    /\ UNCHANGED <<retry, dialogVars>>

NextValidate ==
    \/ CheckK8sName
    \/ CheckNamespace
    \/ CheckK8sKey
    \/ CheckSecretName
    \/ CheckSecretKey
    \/ CheckSecretValue
    \/ CheckPEM
    \/ CheckPEMCertificate

SpecValidate == InitValidate /\ [][NextValidate]_vars

(***************************************************************************)
(* types.ts: the branded string types.  A cast (value as X) leaves the     *)
(* string as it is.                                                        *)
(***************************************************************************)
PlaintextValue(value) == value
EncryptedValue(value) == value
Base64String(value) == value
PEMCertificateTrimmed(value) == Trim(value)
PEMCertificate(value) == value
unwrap(value) == value

Constructors == {"PlaintextValue", "EncryptedValue", "Base64String", "PEMCertificate"}
Construct(f, value) ==
    CASE f = "PlaintextValue" -> PlaintextValue(value)
      [] f = "EncryptedValue" -> EncryptedValue(value)
      [] f = "Base64String" -> Base64String(value)
      [] f = "PEMCertificate" -> PEMCertificate(value)

BrandInputs ==
    UNION { [1 .. k -> ValueAlphabet] : k \in 0 .. MaxStringLen }
    \cup { Envelope, <<" ">> \o Envelope \o <<"\n">>, <<BeginMarker, "!">> }

\* const b = C(s); const raw = unwrap(b); const again = C(raw)
InitBrand ==
    /\ retry = [c \in Calls |-> IdleCall]
    /\ name = InitialName
    /\ namespace = InitialNamespace
    /\ scope = InitialScope
    /\ keyValues = InitialKeyValues
    /\ encrypting = FALSE
    /\ create = [c \in Calls |-> IdleCreate]
    /\ \E f \in Constructors, input \in BrandInputs :
          call = [fn |-> f, args |-> <<input>>, pc |-> "start",
                  branded |-> <<>>, raw |-> <<>>, again |-> <<>>]

Brand ==
    /\ call.pc = "start"
    /\ call' = [call EXCEPT !.pc = "branded", !.branded = Construct(call.fn, call.args[1])]
    /\ UNCHANGED <<retry, dialogVars>>

Unwrap ==
    /\ call.pc = "branded"
    /\ call' = [call EXCEPT !.pc = "unwrapped", !.raw = unwrap(call.branded)]
    /\ UNCHANGED <<retry, dialogVars>>

BrandAgain ==
    /\ call.pc = "unwrapped"
    /\ call' = [call EXCEPT !.pc = "done", !.again = Construct(call.fn, call.raw)]
    /\ UNCHANGED <<retry, dialogVars>>

NextBrand == Brand \/ Unwrap \/ BrandAgain
SpecBrand == InitBrand /\ [][NextBrand]_vars

(***************************************************************************)
(* hooks/useControllerHealth.ts.  The variable call holds one use of the   *)
(* hook by a component: its arguments, its state, the interval timers it   *)
(* has set and the health checks it has started.  Time is counted in       *)
(* ticks.                                                                  *)
(***************************************************************************)
MaxTime == 2
MaxChecks == 3
Intervals == {1, 2}

\* what checkControllerHealth resolves to
HealthOutcomes == {"healthy", "failed"}
\* an exception instead: getPluginConfig or the awaited call throws
HealthExceptions == {"rejected"}
HealthResult(outcome) ==
    IF outcome = "healthy"
    THEN Ok([healthy |-> TRUE, reachable |-> TRUE, error |-> <<>>])
    ELSE Err(<<"unreachable">>)
\* useState(null): isNull is true until setHealth is called; from is the
\* check whose result was stored
NoHealth ==
    [isNull |-> TRUE, from |-> 0, healthy |-> FALSE, reachable |-> FALSE, error |-> <<>>]

\* fetchHealth up to the await
fetchHealth(h, cause, id) ==
    [h EXCEPT !.loading = TRUE,
              !.checks = Append(@, [cause |-> cause, at |-> h.now, timer |-> id,
                                    mounted |-> h.pc = "mounted",
                                    autoRefresh |-> h.autoRefresh,
                                    refreshIntervalMs |-> h.refreshIntervalMs,
                                    interval |-> h.interval,
                                    settled |-> FALSE])]

\* the timer that the function returned by the effect clears (0: the effect
\* returns nothing)
EffectCleanupNone(autoRefresh, id) == 0
EffectCleanup(autoRefresh, id) == IF autoRefresh THEN id ELSE 0

\* the body of the effect
RunEffect(h, cause) ==
    LET started == fetchHealth(h, cause, 0)
        id == Len(h.timers) + 1
    IN  IF h.autoRefresh
        THEN [started EXCEPT
                !.timers = Append(@, [period |-> h.refreshIntervalMs, created |-> h.now,
                                      due |-> h.now + h.refreshIntervalMs,
                                      cleared |-> FALSE, clearedAt |-> 0]),
                !.interval = EffectCleanup(h.autoRefresh, id)]
        ELSE [started EXCEPT !.interval = EffectCleanup(h.autoRefresh, id)]

\* () => clearInterval(interval)
RunCleanup(h) ==
    IF h.interval = 0 THEN h
    ELSE [h EXCEPT !.timers[h.interval].cleared = TRUE,
                   !.timers[h.interval].clearedAt = h.now,
                   !.interval = 0]

InitHealth ==
    /\ retry = [c \in Calls |-> IdleCall]
    /\ name = InitialName
    /\ namespace = InitialNamespace
    /\ scope = InitialScope
    /\ keyValues = InitialKeyValues
    /\ encrypting = FALSE
    /\ create = [c \in Calls |-> IdleCreate]
    /\ \E a \in BOOLEAN, ms \in Intervals :
          call = [pc |-> "rendered", autoRefresh |-> a, refreshIntervalMs |-> ms,
                  health |-> NoHealth, loading |-> TRUE,
                  interval |-> 0, timers |-> <<>>, checks |-> <<>>,
                  now |-> 0, changes |-> 0, refreshes |-> 0]

\* the effect runs after the first render
Mount ==
    /\ call.pc = "rendered"
    /\ call' = RunEffect([call EXCEPT !.pc = "mounted"], "mount")
    /\ UNCHANGED <<retry, dialogVars>>

\* a render with another autoRefresh or refreshIntervalMs: the cleanup of
\* the previous effect runs, then the effect
Rerender ==
    /\ call.pc = "mounted"
    /\ Len(call.checks) < MaxChecks
    /\ \E a \in BOOLEAN, ms \in Intervals :
          /\ <<a, ms>> # <<call.autoRefresh, call.refreshIntervalMs>>
          /\ call' = RunEffect([RunCleanup(call) EXCEPT !.autoRefresh = a,
                                                        !.refreshIntervalMs = ms,
                                                        !.changes = @ + 1],
                               "change")
    /\ UNCHANGED <<retry, dialogVars>>

Unmount ==
    /\ call.pc = "mounted"
    /\ call' = [RunCleanup(call) EXCEPT !.pc = "unmounted"]
    /\ UNCHANGED <<retry, dialogVars>>

\* an interval timer that has not been cleared calls fetchHealth
IntervalFires ==
    /\ call.pc # "rendered"
    /\ \E id \in 1 .. Len(call.timers) :
          /\ ~call.timers[id].cleared
          /\ call.timers[id].due = call.now
          /\ Len(call.checks) < MaxChecks
          /\ call' = [fetchHealth(call, "interval", id) EXCEPT
                         !.timers[id].due = @ + call.timers[id].period]
    /\ UNCHANGED <<retry, dialogVars>>

Tick ==
    /\ call.pc # "rendered"
    /\ call.now < MaxTime
    /\ \A id \in 1 .. Len(call.timers) :
          call.timers[id].cleared \/ call.timers[id].due > call.now
    /\ call' = [call EXCEPT !.now = @ + 1]
    /\ UNCHANGED <<retry, dialogVars>>

\* the component calls the refresh function the hook returned
refresh ==
    /\ call.pc = "mounted"
    /\ Len(call.checks) < MaxChecks
    /\ call' = [fetchHealth(call, "refresh", 0) EXCEPT !.refreshes = @ + 1]
    /\ UNCHANGED <<retry, dialogVars>>

\* fetchHealth after the await; nothing in fetchHealth catches an exception
\* of the awaited call, which ends the check there; React drops the updates
\* of a component that is no longer mounted
HealthEnds(outcomes) ==
    /\ \E k \in 1 .. Len(call.checks), outcome \in outcomes :
          /\ ~call.checks[k].settled
          /\ LET result == HealthResult(outcome)
                 status == IF result.ok THEN result.value
                           ELSE [healthy |-> FALSE, reachable |-> FALSE,
                                 error |-> result.error]
                 settled == [call EXCEPT !.checks[k].settled = TRUE]
             IN  call' = IF call.pc = "mounted" /\ outcome # "rejected"
                         THEN [settled EXCEPT
                                 !.health = [isNull |-> FALSE, from |-> k,
                                             healthy |-> status.healthy,
                                             reachable |-> status.reachable,
                                             error |-> status.error],
                                 !.loading = FALSE]
                         ELSE settled
    /\ UNCHANGED <<retry, dialogVars>>

HealthSettles == HealthEnds(HealthOutcomes)

NextHealth ==
    \/ Mount
    \/ Rerender
    \/ Unmount
    \/ IntervalFires
    \/ Tick
    \/ refresh
    \/ HealthSettles

SpecHealth == InitHealth /\ [][NextHealth]_vars

\* the hook where a health check can also end in an exception
HealthSettlesOrThrows == HealthEnds(HealthOutcomes \cup HealthExceptions)

NextHealthThrows ==
    \/ Mount
    \/ Rerender
    \/ Unmount
    \/ IntervalFires
    \/ Tick
    \/ refresh
    \/ HealthSettlesOrThrows

SpecHealthThrows == InitHealth /\ [][NextHealthThrows]_vars

(***************************************************************************)
(* Helpers of the properties.                                              *)
(***************************************************************************)
\* sub occurs in line as a contiguous run of tokens
Contains(line, sub) ==
    \E i \in 0 .. (Len(line) - Len(sub)) : SubSeq(line, i + 1, i + Len(sub)) = sub

Failures(h) == { i \in 1 .. Len(h) : h[i].kind # "ok" }
AllFailed(h) == \A i \in 1 .. Len(h) : h[i].kind # "ok"

\* the text the code derives from the error of a failed attempt
AttemptText(o) ==
    IF o.kind = "throw" THEN ThrownErrorText(o.error) ELSE ReturnedErrorText(o.error)

HeaderLine(n) == <<"Operation failed after ", ToString(n), " attempts:">>

C2_FirstSuccessReturns ==
    \A c \in Calls :
        LET s == retry[c] IN
        \A k \in 1 .. Len(s.hist) :
            s.hist[k].kind = "ok" =>
                /\ s.pc = "done"
                /\ Len(s.hist) = k
                /\ s.invoked = k
                /\ s.delayCount = k - 1
                /\ s.result.ok = TRUE
                /\ s.result.value = s.hist[k].value

C2_Witness ==
    \E c \in Calls :
        /\ retry[c].pc = "done"
        /\ Len(retry[c].hist) = 2
        /\ retry[c].opts.maxAttempts = 3
        /\ retry[c].hist[2].kind = "ok"
        /\ retry[c].hist[2].value = NullValue
        /\ retry[c].result.value = NullValue

(***************************************************************************)
(* C3: an attempt that throws is treated exactly as an attempt returning   *)
(* the failure variant with the same error: it consumes one attempt, the   *)
(* text recorded for it is the text a returned failure would record, and   *)
(* the call itself ends with a Result.                                     *)
(***************************************************************************)
C3_ThrowSameAsFailure ==
    \A c \in Calls :
        LET s == retry[c] IN
        /\ \A i \in 1 .. Len(s.hist) :
               s.hist[i].kind = "throw" =>
                   /\ i <= s.invoked
                   /\ i <= Len(s.errors)
                   /\ s.errors[i] = <<"Attempt ", ToString(i), ": ">>
                                        \o ReturnedErrorText(s.hist[i].error)
        /\ s.pc = "done" =>
               s.result.ok \/ s.result.error[1] = HeaderLine(s.opts.maxAttempts)

(***************************************************************************)
(* C4: at every point the recorded entries are, in attempt order, one      *)
(* "Attempt i: <error>" per attempt that has failed so far; on exhaustion  *)
(* of maxAttempts = N >= 1 the returned error is the header line           *)
(* "Operation failed after N attempts:" followed by exactly these N        *)
(* entries.                                                                *)
(***************************************************************************)
C4_AggregatedEntries ==
    \A c \in Calls :
        LET s == retry[c]
            N == s.opts.maxAttempts
        IN /\ Len(s.errors) = Cardinality(Failures(s.hist))
           /\ \A i \in 1 .. Len(s.errors) :
                 s.errors[i] = <<"Attempt ", ToString(i), ": ">> \o AttemptText(s.hist[i])
           /\ (s.pc = "done" /\ N >= 1 /\ ~s.result.ok) =>
                 /\ Len(s.errors) = N
                 /\ s.result.error = <<HeaderLine(N)>> \o s.errors

C4_Witness ==
    \E c \in Calls :
        /\ retry[c].pc = "done"
        /\ ~retry[c].result.ok
        /\ retry[c].opts.maxAttempts = 3
        /\ Len(retry[c].result.error) = 4
        /\ retry[c].hist[1].error # retry[c].hist[2].error
        /\ retry[c].hist[2].error # retry[c].hist[3].error

CapP(s) ==
    LET m == s.opts.backoffMultiplier
        raw == s.opts.initialDelayMs * Pow(m.num, s.attempt)
    IN IF raw <= s.opts.maxDelayMs * Pow(m.den, s.attempt)
       THEN raw ELSE s.opts.maxDelayMs
CapQ(s) ==
    LET m == s.opts.backoffMultiplier
        raw == s.opts.initialDelayMs * Pow(m.num, s.attempt)
    IN IF raw <= s.opts.maxDelayMs * Pow(m.den, s.attempt)
       THEN Pow(m.den, s.attempt) ELSE 1

\* C10 as stated: without jitter the delay is floor(P / Q); with jitter it
\* lies between 75% and 125% of P / Q and is not negative.
C10_DelayWithin75And125 ==
    \A c \in Calls :
        LET s == retry[c] IN
        s.pc = "sleep" =>
            IF s.opts.useJitter
            THEN /\ s.lastDelay >= 0
                 /\ 3 * CapP(s) <= 4 * CapQ(s) * s.lastDelay
                 /\ 4 * CapQ(s) * s.lastDelay <= 5 * CapP(s)
            ELSE s.lastDelay = CapP(s) \div CapQ(s)

\* C10 amended: without jitter the delay is floor(P / Q); with jitter it is
\* the floor of a value between 75% and 125% of P / Q, so it is not
\* negative, at most 125% of P / Q and more than 75% of P / Q minus 1.
C10_DelayFlooredJitter ==
    \A c \in Calls :
        LET s == retry[c] IN
        s.pc = "sleep" =>
            IF s.opts.useJitter
            THEN /\ s.lastDelay >= 0
                 /\ 3 * CapP(s) < 4 * CapQ(s) * (s.lastDelay + 1)
                 /\ 4 * CapQ(s) * s.lastDelay <= 5 * CapP(s)
            ELSE s.lastDelay = CapP(s) \div CapQ(s)

C10_Witness ==
    \E c \in Calls :
        /\ retry[c].pc = "sleep"
        /\ retry[c].opts.useJitter
        /\ retry[c].attempt = 1
        /\ retry[c].opts.maxDelayMs = 1500
        /\ retry[c].lastDelay < 1500
        /\ retry[c].lastDelay > 1200


(***************************************************************************)
(* C11: no delay waited between two attempts exceeds maxDelayMs, with      *)
(* jitter enabled or disabled.                                             *)
(***************************************************************************)
C11_DelayNeverExceedsMax ==
    \A c \in Calls :
        retry[c].pc = "sleep" => retry[c].lastDelay <= retry[c].opts.maxDelayMs

(***************************************************************************)
(* The encryption hook and the dialog (SpecEncrypt)                        *)
(***************************************************************************)
Started(c) == create[c].pc # "idle"
Returned(c) == create[c].pc = "returned"
Fetches(c) == IF create[c].pc = "encrypt" THEN retry[c].invoked ELSE create[c].fetched
PairsValid(r) ==
    \A i \in 1 .. Len(r.keyValues) :
        /\ validateSecretKey(r.keyValues[i].key).valid
        /\ validateSecretValue(r.keyValues[i].value).valid

\* C6: whenever the name, the namespace, a key or a value of the request of
\* an encrypt call is invalid, the call has returned a failure and has
\* issued no fetch and run no crypto operation.
C6_NoFetchUnlessAllValid ==
    \A c \in Calls :
        LET r == create[c].request
        IN  ( /\ Started(c)
              /\ ~( /\ validateSecretName(r.name).valid
                    /\ isValidNamespace(r.namespace)
                    /\ PairsValid(r) ) )
            => /\ Returned(c)
               /\ ~create[c].result.ok
               /\ Fetches(c) = 0
               /\ create[c].keyParsed = 0
               /\ create[c].encrypted = 0

\* C7: a handleCreate invocation posts at most once, only when encrypt has
\* returned the success variant, and what it posts is the sealedSecretData
\* of that result, in which no value is a plaintext value of the request or
\* of the form; an invocation whose encrypt failed has posted nothing.
C7_PostsOnlySealedData ==
    \A c \in Calls :
        /\ Len(create[c].posted) <= 1
        /\ create[c].pc \in {"idle", "encrypt"} => create[c].posted = <<>>
        /\ Returned(c) /\ ~create[c].result.ok => create[c].posted = <<>>
        /\ create[c].posted # <<>> =>
              LET body == create[c].posted[1]
                  plain == { create[c].request.keyValues[i].value :
                                i \in 1 .. Len(create[c].request.keyValues) }
                           \cup { keyValues[i].value : i \in 1 .. Len(keyValues) }
              IN  /\ create[c].result.ok
                  /\ body = create[c].result.value.sealedSecretData
                  /\ body.kind = "SealedSecret"
                  /\ \A k \in DOMAIN body.spec.encryptedData :
                        body.spec.encryptedData[k] \notin plain

\* C7 witness: a handleCreate that encrypted a pair has posted and returned.
C7_Witness ==
    \E c \in Calls :
        /\ Returned(c)
        /\ Len(create[c].posted) = 1
        /\ create[c].request.keyValues # <<>>
        /\ create[c].closed = 1

\* C8 as stated: every encrypt call that has returned requested the
\* controller endpoint between 1 and 3 times, parsed the certificate, parsed
\* the key and encrypted at most once each, and ended in failure whenever
\* one of those three failed.
C8_FetchedOneToThree ==
    \A c \in Calls :
        Returned(c) =>
            /\ Fetches(c) \in 1 .. 3
            /\ create[c].certInfoParsed <= 1
            /\ create[c].keyParsed <= 1
            /\ create[c].encrypted <= 1
            /\ create[c].result.ok => create[c].result.value.certificateInfo # "unparsed"

\* C8 amended: the endpoint is requested at most 3 times, with the options
\* maxAttempts 3, initial delay 1000 ms and cap 10000 ms, and at least once
\* exactly when the request passes validation; certificate parsing, key
\* parsing and encryption run at most once each and only after the last
\* fetch; a call whose key parsing or encryption failed has ended with a
\* failure, without a further fetch.
C8_OnlyFetchRetried ==
    \A c \in Calls :
        /\ Fetches(c) <= 3
        /\ retry[c].pc # "idle" =>
              /\ retry[c].opts.maxAttempts = 3
              /\ retry[c].opts.initialDelayMs = 1000
              /\ retry[c].opts.maxDelayMs = 10000
        /\ Started(c) => (Fetches(c) >= 1 <=> ValidateRequest(create[c].request).valid)
        /\ create[c].certInfoParsed <= 1
        /\ create[c].keyParsed <= 1
        /\ create[c].encrypted <= 1
        /\ create[c].certInfoParsed + create[c].keyParsed + create[c].encrypted > 0 =>
              /\ retry[c].pc = "idle"
              /\ create[c].pc \in {"post", "returned"}
              /\ ~create[c].result.ok => Returned(c)
        /\ create[c].keyParsed = 1 /\ create[c].encrypted = 0 =>
              Returned(c) /\ ~create[c].result.ok
        /\ create[c].encrypted = 1 /\ create[c].posted = <<>> =>
              Returned(c) /\ ~create[c].result.ok
        /\ create[c].encrypted = 1 => create[c].keyParsed = 1

\* C8 witness: a call that fetched three times, then failed at a step that
\* runs once.
C8_Witness ==
    \E c \in Calls :
        /\ Returned(c)
        /\ Fetches(c) = 3
        /\ create[c].keyParsed = 1
        /\ ~create[c].result.ok

(***************************************************************************)
(* The scope label (SpecLabel)                                             *)
(***************************************************************************)
\* C9: the label is namespace/name under strict, the namespace under
\* namespace-wide and empty under cluster-wide; for a valid namespace and
\* name the labels of the three scopes differ pairwise, and under strict no
\* other valid (namespace, name) pair has the same label.
C9_ScopeLabels ==
    (call.fn = "ScopeLabel" /\ call.done) =>
        LET sc == call.args[1]
            ns == call.args[2]
            n  == call.args[3]
        IN  /\ sc = "strict" => call.result = ns \o <<"/">> \o n
            /\ sc = "namespace-wide" => call.result = ns
            /\ sc = "cluster-wide" => call.result = <<>>
            /\ \A s1, s2 \in Scopes :
                  s1 # s2 => ScopeLabel(s1, ns, n) # ScopeLabel(s2, ns, n)
            /\ sc = "strict" =>
                  \A ns2 \in ValidNames, n2 \in ValidNames :
                      <<ns2, n2>> # <<ns, n>> => ScopeLabel("strict", ns2, n2) # call.result

\* C9 witness: a strict label has been derived for a valid namespace and
\* name.
C9_Witness ==
    /\ call.fn = "ScopeLabel"
    /\ call.done
    /\ call.args = <<"strict", <<"a">>, <<"a", "a">>>>
    /\ call.result = <<"a", "/", "a", "a">>


(***************************************************************************)
(* tryCatch and tryCatchAsync (SpecTry)                                    *)
(***************************************************************************)
TryCall == call.fn \in {"tryCatch", "tryCatchAsync"}
FnCompleted == call.args[1].kind \in {"return", "resolve"}

\* C12: tryCatch and tryCatchAsync invoke fn exactly once and never throw
\* or reject themselves; the result is Ok(v) exactly when fn returns or
\* resolves with v and the failure variant exactly when fn throws or
\* rejects; Ok(v) has ok = true and value = v, Err(e) has ok = false and
\* error = e.
C12_TryCatchNeverThrows ==
    TryCall =>
        /\ call.invoked <= 1
        /\ call.pc # "start" => call.invoked = 1
        /\ call.pc # "threw"
        /\ call.pc = "returned" =>
              /\ call.result.ok <=> FnCompleted
              /\ call.result.ok => call.result.value = call.args[1].value
        /\ \A v \in Values : Ok(v).ok /\ Ok(v).value = v
        /\ \A e \in ThrownValues : ~Err(e).ok /\ Err(e).error = e

\* C13: the error of a failure from tryCatch or tryCatchAsync is an Error:
\* a thrown Error is carried unchanged, a thrown non-Error value x is
\* replaced by a new Error whose message is String(x).
C13_FailureCarriesError ==
    (TryCall /\ call.pc = "returned" /\ ~call.result.ok) =>
        LET x == call.args[1].error
            e == call.result.error
        IN  /\ e.type = "Error"
            /\ x.type = "Error" => e = x
            /\ x.type \in {"string", "custom"} => e.message = x.message
            /\ x.type = "object" => e.message = <<"[object Object]">>

\* C13 witness: tryCatchAsync has returned the failure for a promise
\* rejected with a string, and tryCatch-style coercion gave it a message.
C13_Witness ==
    /\ call.fn = "tryCatchAsync"
    /\ call.pc = "returned"
    /\ call.args[1].kind = "reject"
    /\ call.args[1].error = [type |-> "string", message |-> <<"e1", "e2">>]
    /\ call.result.error = [type |-> "Error", message |-> <<"e1", "e2">>]


(***************************************************************************)
(* The validators (SpecValidate)                                           *)
(***************************************************************************)
Applied(f) == call.fn = f /\ call.done
LowerAlnum == Lower \cup Digit
Alnum == Lower \cup Upper \cup Digit

\* a non-empty string of at most 253 characters that is a dot-separated
\* sequence of labels of lowercase letters, digits and '-', each starting
\* and ending with a lowercase letter or digit
IsDnsSubdomain(s) ==
    /\ s # <<>>
    /\ Len(s) <= 253
    /\ \A i \in 1 .. Len(s) : s[i] \in LowerAlnum \cup {"-", "."}
    /\ s[1] \in LowerAlnum
    /\ s[Len(s)] \in LowerAlnum
    /\ \A i \in 1 .. Len(s) :
          s[i] = "." => s[i - 1] \in LowerAlnum /\ s[i + 1] \in LowerAlnum

\* C14: isValidK8sName(name) is true exactly when name is non-empty, at
\* most 253 characters long and a dot-separated sequence of labels of
\* lowercase letters, digits and '-' that start and end with a lowercase
\* letter or digit; isValidNamespace gives the same answer.
C14_NameIsDnsSubdomain ==
    (Applied("isValidK8sName") \/ Applied("isValidNamespace")) =>
        call.result = IsDnsSubdomain(call.args[1])

\* C14 witness: isValidNamespace has accepted a name of 253 characters made
\* of several labels.
C14_Witness ==
    /\ Applied("isValidNamespace")
    /\ Len(call.args[1]) = 253
    /\ call.args[1][2] = "."
    /\ call.result = TRUE

\* C15: isValidK8sKey(key) is true exactly when key is non-empty, at most
\* 253 characters long, made of letters, digits, '-', '_' and '.', and its
\* first and last characters are letters or digits.
C15_KeyGrammar ==
    Applied("isValidK8sKey") =>
        LET s == call.args[1]
        IN  call.result = ( /\ s # <<>>
                            /\ Len(s) <= 253
                            /\ \A i \in 1 .. Len(s) : s[i] \in Alnum \cup {"-", "_", "."}
                            /\ s[1] \in Alnum
                            /\ s[Len(s)] \in Alnum )

\* C15 witness: a single alphanumeric character has been accepted.
C15_Witness ==
    /\ Applied("isValidK8sKey")
    /\ call.args[1] = <<"A">>
    /\ call.result = TRUE


\* the size in bytes (UTF-8) of unit.repeat(times)
Utf8Bytes(v) ==
    v.times * (Len(v.unit) + Cardinality({ i \in 1 .. Len(v.unit) : v.unit[i] = "U+00E9" }))
IsBlank(v) == v.times = 0 \/ \A i \in 1 .. Len(v.unit) : v.unit[i] \in Whitespace

\* C16: validateSecretValue(value) returns valid exactly when value is
\* non-empty after trimming and at most 1,048,576 bytes long, counting the
\* bytes of multi-byte characters; a larger value is rejected with the size
\* error and a whitespace-only value with the 'required' error.
C16_ValueWithinOneMegabyte ==
    Applied("validateSecretValue") =>
        LET v == call.args[1]
        IN  /\ call.result.valid = (~IsBlank(v) /\ Utf8Bytes(v) <= 1048576)
            /\ IsBlank(v) => call.result.error = <<"Secret value is required">>
            /\ ~IsBlank(v) /\ Utf8Bytes(v) > 1048576 =>
                  call.result.error = <<"Secret value must be less than 1MB">>

Base64Chars == Alnum \cup {"+", "/", "="}

\* one envelope: the BEGIN marker, base64 content on its own lines, the END
\* marker
IsSingleEnvelope(t) ==
    /\ Len(t) >= 5
    /\ t[1] = BeginMarker
    /\ t[2] \in Whitespace
    /\ t[Len(t) - 1] \in Whitespace
    /\ t[Len(t)] = EndMarker
    /\ \A i \in 2 .. (Len(t) - 1) : t[i] \in Base64Chars \cup Whitespace
    /\ \E i \in 2 .. (Len(t) - 1) : t[i] \in Base64Chars

\* C17: isValidPEM and validatePEMCertificate accept a text exactly when,
\* leading and trailing whitespace ignored, it is one single envelope of the
\* BEGIN CERTIFICATE marker, non-empty base64 content and the END
\* CERTIFICATE marker.
C17_AcceptsOnlyOneEnvelope ==
    /\ Applied("isValidPEM") => call.result = IsSingleEnvelope(Trim(call.args[1]))
    /\ Applied("validatePEMCertificate") =>
          call.result.valid = IsSingleEnvelope(Trim(call.args[1]))


(***************************************************************************)
(* The branded types (SpecBrand)                                           *)
(***************************************************************************)
\* C18: the constructors PlaintextValue, EncryptedValue, Base64String and
\* PEMCertificate return the string they are given, whatever it is, and
\* unwrap is their inverse: unwrap(C(s)) = s and C(unwrap(C(s))) = C(s).
C18_BrandRoundTrip ==
    /\ call.pc \in {"branded", "unwrapped", "done"} => call.branded = call.args[1]
    /\ call.pc \in {"unwrapped", "done"} => call.raw = call.args[1]
    /\ call.pc = "done" => call.again = call.branded

\* C18 witness: PEMCertificate has labelled a text that is not a certificate
\* and the round trip has given it back.
C18_Witness ==
    /\ call.pc = "done"
    /\ call.fn = "PEMCertificate"
    /\ ~isValidPEM(call.args[1])
    /\ call.args[1] # Trim(call.args[1])
    /\ call.raw = call.args[1]
    /\ call.again = call.branded


(***************************************************************************)
(* useControllerHealth (SpecHealth)                                        *)
(***************************************************************************)
ChecksBy(cause) == { k \in 1 .. Len(call.checks) : call.checks[k].cause = cause }
FiredBy(id) ==
    { k \in 1 .. Len(call.checks) :
        call.checks[k].cause = "interval" /\ call.checks[k].timer = id }

\* exactly one check starts at mount, and it is the first
OneCheckOnMount ==
    call.pc # "rendered" =>
        /\ ChecksBy("mount") = {1}
        /\ call.checks[1].at = 0

\* a check started by an interval timer starts while the hook is mounted
\* with autoRefresh true, from the timer of the current effect, a whole
\* number of periods of refreshIntervalMs after the timer was set
IntervalChecksOnTime ==
    \A k \in ChecksBy("interval") :
        LET e == call.checks[k]
            t == call.timers[e.timer]
        IN  /\ e.mounted /\ e.autoRefresh
            /\ e.timer = e.interval
            /\ t.period = e.refreshIntervalMs
            /\ e.at > t.created
            /\ (e.at - t.created) % t.period = 0

\* a timer that is not cleared has started one check for every period that
\* has elapsed (the check of the current tick may still be due); the only
\* timer not cleared is the one of the current effect
OneCheckPerInterval ==
    \A id \in 1 .. Len(call.timers) :
        LET t == call.timers[id]
            fired == Cardinality(FiredBy(id))
        IN  /\ ~t.cleared => /\ id = call.interval
                              /\ call.pc = "mounted" /\ call.autoRefresh
                              /\ t.period = call.refreshIntervalMs
                              /\ \/ fired = (call.now - t.created) \div t.period
                                 \/ /\ t.due = call.now
                                    /\ fired + 1 = (call.now - t.created) \div t.period
            /\ t.cleared => \A k \in FiredBy(id) : call.checks[k].at <= t.clearedAt

DefaultTiming(o) ==
    /\ o.maxAttempts = 3
    /\ o.initialDelayMs = 1000
    /\ o.maxDelayMs = 10000
    /\ o.backoffMultiplier = [num |-> 2, den |-> 1]

OwnErrors(hist) ==
    LET failed == { i \in 1 .. Len(hist) : ~Succeeded(hist[i]) }
    IN  [ i \in 1 .. Cardinality(failed) |->
            AttemptEntry(i - 1, IF hist[i].kind = "throw"
                                THEN ThrownErrorText(hist[i].error)
                                ELSE ReturnedErrorText(hist[i].error)) ]

C22_CallsIndependent ==
    /\ call.defaults = DEFAULT_RETRY_OPTIONS
    /\ call.options = call.passed
    /\ \A c \in Calls :
          LET s == retry[c]
              n == Len(s.hist)
          IN  s.pc # "idle" =>
                /\ s.opts = MergeOptions(call.passed[c])
                /\ s.errors = OwnErrors(s.hist)
                /\ s.attempt = IF s.pc = "operation" THEN n ELSE n - 1
                /\ s.invoked = IF s.pc = "operation" THEN n + 1 ELSE n
                /\ s.pc = "done" =>
                      s.result = IF Succeeded(s.hist[n]) THEN Ok(s.hist[n].value)
                                 ELSE Err(FailureMessage(s.opts.maxAttempts, OwnErrors(s.hist)))

\* C22 witness: call 1 has returned after two attempts while call 2, started
\* with other options, waits between its attempts with another error list.
C22_Witness ==
    /\ retry[1].pc = "done"
    /\ retry[1].invoked = 2
    /\ retry[2].pc = "sleep"
    /\ retry[2].opts.initialDelayMs # retry[1].opts.initialDelayMs
    /\ Len(retry[2].errors) = 1
    /\ retry[2].errors[1] # retry[1].errors[1]


\* what one handleCreate call has done that the dialog can see
Progress(d) == <<d.pc, d.closed, d.post, Len(d.snackbars), Len(d.posted)>>

InFlight(c) == create[c].pc \in {"encrypt", "post"}

\* C24: while a create is in progress, up to the settled POST, the buttons
\* are disabled (encrypting is true), no second handleCreate is in flight
\* and no second POST of the same form has been issued.
C24_ButtonsDisabledUntilPostSettles ==
    /\ \A c \in Calls : InFlight(c) => encrypting
    /\ Cardinality({ c \in Calls : InFlight(c) }) <= 1
    /\ \A c \in Calls, d \in Calls :
          (c # d /\ create[c].pc = "post" /\ create[d].pc = "post") =>
             create[c].posted # create[d].posted


\* the health checks of the hook that have started and not yet completed
InFlightChecks == { k \in 1 .. Len(call.checks) : ~call.checks[k].settled }

\* C25: while the component is mounted, loading is true whenever at least
\* one health check is in flight.
C25_LoadingWhileAnyCheckInFlight ==
    (call.pc = "mounted" /\ InFlightChecks # {}) => call.loading

\* C26: when a health check of a mounted component ends, whatever its
\* outcome, loading is false and health is the non-null value made from the
\* result of that check: the status of an Ok result, or healthy = false,
\* reachable = false and the error of an Err result.
C26_EveryCheckEndsLoaded ==
    [][\A k \in 1 .. Len(call.checks) :
          (call.pc = "mounted" /\ ~call.checks[k].settled /\ call'.checks[k].settled) =>
             /\ ~call'.loading
             /\ ~call'.health.isNull
             /\ call'.health.from = k
             /\ \/ /\ call'.health.healthy
                   /\ call'.health.reachable
                   /\ call'.health.error = <<>>
                \/ /\ ~call'.health.healthy
                   /\ ~call'.health.reachable
                   /\ call'.health.error # <<>>]_vars

\* C28: the result of a health check never replaces the result of a check
\* that was started after it, so that once all checks have completed the
\* health value is the result of the most recently started one.
C28_LatestStartedCheckWins ==
    [][call'.health.from >= call.health.from]_vars


\* C27: the key/value row list of the dialog always holds at least one row.
C27_RowsNeverEmpty == Len(keyValues) >= 1

C27_Witness ==
    /\ create[1].pc = "returned"
    /\ create[1].post = "fulfilled"
    /\ Len(create[1].request.keyValues) = MaxRows
    /\ Len(keyValues) = 1
    /\ keyValues[1] = EmptyRow


\* the one message an invalid name or key is reported with: required for an
\* empty or whitespace-only string, then length, then format
ExpectedError(s, required, length, format) ==
    IF \A i \in 1 .. Len(s) : s[i] \in Whitespace THEN <<required>>
    ELSE IF Len(s) > 253 THEN <<length>>
    ELSE <<format>>

\* C29: validateSecretName(s).valid = isValidK8sName(s) and
\* validateSecretKey(s).valid = isValidK8sKey(s) for every string s; a valid
\* result carries no error and an invalid one exactly one message, chosen
\* in the order required, length, format.
C29_ValidatorsAgreeWithPredicates ==
    /\ Applied("validateSecretName") =>
          /\ call.result.valid = isValidK8sName(call.args[1])
          /\ call.result.valid => call.result.error = <<>>
          /\ ~call.result.valid =>
                call.result.error =
                   ExpectedError(call.args[1],
                      "Secret name is required",
                      "Secret name must be 253 characters or less",
                      "Secret name must be lowercase alphanumeric, may contain hyphens and dots, and must start/end with alphanumeric")
    /\ Applied("validateSecretKey") =>
          /\ call.result.valid = isValidK8sKey(call.args[1])
          /\ call.result.valid => call.result.error = <<>>
          /\ ~call.result.valid =>
                call.result.error =
                   ExpectedError(call.args[1],
                      "Key name is required",
                      "Key name must be 253 characters or less",
                      "Key name must be alphanumeric and may contain hyphens, underscores, and dots")

C29_Witness ==
    /\ Applied("validateSecretName")
    /\ call.args[1] = Repeat(" ", MaxNameLength + 1)
    /\ ~call.result.valid
    /\ call.result.error = <<"Secret name is required">>


====
